---- MODULE Spec2Model ----
(***************************************************************************)
(* Model of the simulated brokerage ledger, MockBroker                     *)
(* (src/src/brokers/mock.py), with the value types of                      *)
(* src/src/brokers/models.py.                                              *)
(*                                                                         *)
(* Money, prices and ratios are Python floats in the source.  They are     *)
(* modelled as exact rationals <<n, d>> (d > 0, lowest terms), so every    *)
(* product, quotient and comparison is computed as the source writes it,   *)
(* without binary rounding.  Share counts are integers, as in the source.  *)
(***************************************************************************)
EXTENDS Integers, Sequences, FiniteSets, TLC

VARIABLES
    initial_cash,         \* MockBroker._initial_cash
    cash,                 \* MockBroker._cash
    margin_requirement,   \* MockBroker._margin_requirement
    margin_used,          \* MockBroker._margin_used
    slippage,             \* MockBroker._slippage
    max_slippage,         \* MockBroker._max_slippage
    positions,            \* MockBroker._positions : ticker -> Position
    orders,               \* MockBroker._orders    : order_id -> OrderResult
    prices,               \* MockBroker._prices    : ticker -> price
    uuids,                \* number of order ids uuid4() has handed out
    file,                 \* what the state file (MockBroker._state_file) holds
    ret                   \* what the last submit_order call returned (or raised)

vars == <<initial_cash, cash, margin_requirement, margin_used, slippage,
          max_slippage, positions, orders, prices, uuids, file, ret>>

ledger == <<cash, margin_used, positions>>

----------------------------------------------------------------------------
(* Bounds of the model.                                                    *)

\* submit_order calls explored (each one draws a fresh uuid4 order id)
MaxOrders == 2

Tickers == {"X"}

\* order quantities
Quantities == {1, 2}

\* prices handed to set_price
PriceSet == {1, 3}

\* the same with a price of zero, which set_price accepts as well
PriceSetWithZero == PriceSet \cup {0}

\* limit prices of LIMIT orders
LimitPrices == {2}

\* client_order_id values; they repeat across orders
ClientIds == {"c1"}

----------------------------------------------------------------------------
(* Exact rational arithmetic standing for Python float arithmetic.         *)

Abs(i) == IF i < 0 THEN -i ELSE i

RECURSIVE Gcd(_, _)
Gcd(a, b) == IF b = 0 THEN a ELSE Gcd(b, a % b)

\* n/d in lowest terms with a positive denominator (d # 0)
Rat(n, d) ==
    LET s == IF d < 0 THEN -1 ELSE 1
        g == Gcd(Abs(n), Abs(d))
    IN  <<(s * n) \div g, (s * d) \div g>>

R(i) == <<i, 1>>
Zero == R(0)
One == R(1)

RAdd(a, b) == Rat(a[1] * b[2] + b[1] * a[2], a[2] * b[2])
RSub(a, b) == Rat(a[1] * b[2] - b[1] * a[2], a[2] * b[2])
RMul(a, b) == Rat(a[1] * b[1], a[2] * b[2])
\* a / b for b # 0 (Python raises ZeroDivisionError for b = 0; callers guard)
RDiv(a, b) == Rat(a[1] * b[2], a[2] * b[1])
RLt(a, b) == a[1] * b[2] < b[1] * a[2]
RGt(a, b) == RLt(b, a)
RAbs(a) == <<Abs(a[1]), a[2]>>
\* int(x): truncation toward zero
RInt(a) == IF a[1] >= 0 THEN a[1] \div a[2] ELSE -((-a[1]) \div a[2])

----------------------------------------------------------------------------
(* Enumerations of models.py.                                              *)

OrderSides == {"buy", "sell"}
OrderTypes == {"market", "limit", "stop", "stop_limit"}
OrderStatuses == {"pending", "submitted", "partial", "filled", "cancelled",
                  "rejected", "expired"}
PositionSides == {"long", "short"}

\* Python's None where a float or a price is optional
None == <<>>

\* Python's None where a message string is optional
NoMessage == "None"

\* is_terminal with REJECTED left out of the terminal states
is_terminal_without_rejected(o) == o.status \in {"filled", "cancelled", "expired"}

\* OrderResult.is_terminal
is_terminal(o) == o.status \in {"filled", "cancelled", "rejected", "expired"}

\* OrderResult.is_filled
is_filled(o) == o.status = "filled"

\* Position(...) as constructed by _get_or_create_position
NewPosition(ticker, side) ==
    [ticker |-> ticker, quantity |-> 0, side |-> side, average_cost |-> Zero,
     current_price |-> Zero, market_value |-> Zero, unrealized_pnl |-> Zero,
     realized_pnl |-> Zero]

\* Position.update_market_data
update_market_data(pos, current_price) ==
    [pos EXCEPT
        !.current_price = current_price,
        !.market_value = RMul(R(Abs(pos.quantity)), current_price),
        !.unrealized_pnl =
            IF pos.side = "long"
            THEN RMul(RSub(current_price, pos.average_cost), R(pos.quantity))
            ELSE RMul(RSub(pos.average_cost, current_price), R(Abs(pos.quantity)))]

----------------------------------------------------------------------------
(* Price lookup and slippage.                                              *)

\* MockBroker.get_current_price, with no price_provider injected (the
\* constructor's default)
get_current_price(ticker) ==
    IF ticker \in DOMAIN prices THEN prices[ticker] ELSE None

\* slippage raising the price for sellers as well as for buyers
ApplySlippageUp(price, side) ==
    IF slippage = Zero THEN price
    ELSE RMul(price, RAdd(One, slippage))

\* MockBroker._apply_slippage
ApplySlippage(price, side) ==
    IF slippage = Zero THEN price
    ELSE IF side = "buy" THEN RMul(price, RAdd(One, slippage))
    ELSE RMul(price, RSub(One, slippage))

----------------------------------------------------------------------------
(* The four position-transition primitives.  Each yields what it raised    *)
(* (NoError when it returned), the quantity it returned, and the ledger it *)
(* leaves behind.                                                          *)

NoError == "no error"

Raise(err, msg) ==
    [raised |-> err, message |-> msg, filled |-> 0, cash |-> cash,
     margin_used |-> margin_used, positions |-> positions]

Return(filled, c, m, ps) ==
    [raised |-> NoError, message |-> NoMessage, filled |-> filled, cash |-> c,
     margin_used |-> m, positions |-> ps]

\* MockBroker._get_or_create_position: the position map after the call
GetOrCreatePosition(ticker, side) ==
    IF ticker \notin DOMAIN positions
    THEN positions @@ (ticker :> NewPosition(ticker, side))
    ELSE positions

\* del self._positions[ticker]
Del(ps, ticker) == [t \in DOMAIN ps \ {ticker} |-> ps[t]]

\* the weighted-mean update shared by _execute_long_buy and _execute_short_open
AverageCost(old_cost, old_qty, price, quantity, new_qty) ==
    RDiv(RAdd(RMul(old_cost, R(old_qty)), RMul(price, R(quantity))), R(new_qty))

\* _execute_long_buy fetching (and so creating) the position before the funds
\* check instead of after it
ExecuteLongBuyCreatesFirst(ticker, quantity, price) ==
    LET cost0 == RMul(R(quantity), price)
        clamp == RGt(cost0, cash)
        max_qty == IF RGt(price, Zero) THEN RInt(RDiv(cash, price)) ELSE 0
        ps == GetOrCreatePosition(ticker, "long")
    IN  IF clamp /\ max_qty = 0
        THEN [Raise("InsufficientFundsError", "Insufficient cash")
                 EXCEPT !.positions = ps]
        ELSE
        LET qty == IF clamp THEN max_qty ELSE quantity
            cost == RMul(R(qty), price)
            position == ps[ticker]
            old_qty == position.quantity
            old_cost == position.average_cost
            new_qty == old_qty + qty
            new_cost == IF new_qty > 0
                        THEN AverageCost(old_cost, old_qty, price, qty, new_qty)
                        ELSE old_cost
        IN  Return(qty, RSub(cash, cost), margin_used,
                   [ps EXCEPT ![ticker].average_cost = new_cost,
                              ![ticker].quantity = new_qty])

\* MockBroker._execute_long_buy
ExecuteLongBuy(ticker, quantity, price) ==
    LET cost0 == RMul(R(quantity), price)
        clamp == RGt(cost0, cash)
        max_qty == IF RGt(price, Zero) THEN RInt(RDiv(cash, price)) ELSE 0
    IN  IF clamp /\ max_qty = 0
        THEN Raise("InsufficientFundsError", "Insufficient cash")
        ELSE
        LET qty == IF clamp THEN max_qty ELSE quantity
            cost == RMul(R(qty), price)
            ps == GetOrCreatePosition(ticker, "long")
            position == ps[ticker]
            old_qty == position.quantity
            old_cost == position.average_cost
            new_qty == old_qty + qty
            new_cost == IF new_qty > 0
                        THEN AverageCost(old_cost, old_qty, price, qty, new_qty)
                        ELSE old_cost
        IN  Return(qty, RSub(cash, cost), margin_used,
                   [ps EXCEPT ![ticker].average_cost = new_cost,
                              ![ticker].quantity = new_qty])

\* _execute_long_sell without the clamp to the held quantity
ExecuteLongSellUnclamped(ticker, quantity, price) ==
    IF ticker \notin DOMAIN positions \/ positions[ticker].side # "long"
    THEN Return(0, cash, margin_used, positions)
    ELSE
    LET position == positions[ticker]
        qty == quantity
        realized_pnl == RMul(RSub(price, position.average_cost), R(qty))
        new_qty == position.quantity - qty
        ps == [positions EXCEPT
                  ![ticker].realized_pnl = RAdd(position.realized_pnl, realized_pnl),
                  ![ticker].quantity = new_qty]
    IN  Return(qty, RAdd(cash, RMul(R(qty), price)), margin_used,
               IF new_qty = 0 THEN Del(ps, ticker) ELSE ps)

\* _execute_long_sell keeping a position that was sold out
ExecuteLongSellKeepsFlat(ticker, quantity, price) ==
    IF ticker \notin DOMAIN positions \/ positions[ticker].side # "long"
    THEN Return(0, cash, margin_used, positions)
    ELSE
    LET position == positions[ticker]
        qty == IF quantity < position.quantity THEN quantity ELSE position.quantity
    IN  IF qty <= 0
        THEN Return(0, cash, margin_used, positions)
        ELSE
        LET realized_pnl == RMul(RSub(price, position.average_cost), R(qty))
            new_qty == position.quantity - qty
        IN  Return(qty, RAdd(cash, RMul(R(qty), price)), margin_used,
                   [positions EXCEPT
                      ![ticker].realized_pnl = RAdd(position.realized_pnl, realized_pnl),
                      ![ticker].quantity = new_qty])

\* MockBroker._execute_long_sell
ExecuteLongSell(ticker, quantity, price) ==
    IF ticker \notin DOMAIN positions \/ positions[ticker].side # "long"
    THEN Return(0, cash, margin_used, positions)
    ELSE
    LET position == positions[ticker]
        qty == IF quantity < position.quantity THEN quantity ELSE position.quantity
    IN  IF qty <= 0
        THEN Return(0, cash, margin_used, positions)
        ELSE
        LET realized_pnl == RMul(RSub(price, position.average_cost), R(qty))
            new_qty == position.quantity - qty
            ps == [positions EXCEPT
                      ![ticker].realized_pnl = RAdd(position.realized_pnl, realized_pnl),
                      ![ticker].quantity = new_qty]
        IN  Return(qty, RAdd(cash, RMul(R(qty), price)), margin_used,
                   IF new_qty = 0 THEN Del(ps, ticker) ELSE ps)

\* MockBroker._execute_short_open
ExecuteShortOpen(ticker, quantity, price) ==
    LET proceeds0 == RMul(price, R(quantity))
        margin_required0 == RMul(proceeds0, margin_requirement)
        clamp == RGt(margin_required0, cash)
        divisor == RMul(price, margin_requirement)
    IN  IF clamp /\ divisor = Zero
        THEN Raise("ZeroDivisionError", "float division by zero")
        ELSE IF clamp /\ RInt(RDiv(cash, divisor)) = 0
        THEN Raise("InsufficientFundsError", "Insufficient margin")
        ELSE
        LET qty == IF clamp THEN RInt(RDiv(cash, divisor)) ELSE quantity
            proceeds == RMul(price, R(qty))
            margin_required == RMul(proceeds, margin_requirement)
            ps == GetOrCreatePosition(ticker, "short")
            position == ps[ticker]
            old_qty == Abs(position.quantity)
            old_cost == position.average_cost
            new_qty == old_qty + qty
            new_cost == IF new_qty > 0
                        THEN AverageCost(old_cost, old_qty, price, qty, new_qty)
                        ELSE old_cost
        IN  Return(qty, RAdd(cash, RSub(proceeds, margin_required)),
                   RAdd(margin_used, margin_required),
                   [ps EXCEPT ![ticker].average_cost = new_cost,
                              ![ticker].quantity = -new_qty])

\* MockBroker._execute_short_cover
ExecuteShortCover(ticker, quantity, price) ==
    IF ticker \notin DOMAIN positions \/ positions[ticker].side # "short"
    THEN Return(0, cash, margin_used, positions)
    ELSE
    LET position == positions[ticker]
        short_qty == Abs(position.quantity)
        qty == IF quantity < short_qty THEN quantity ELSE short_qty
    IN  IF qty <= 0
        THEN Return(0, cash, margin_used, positions)
        ELSE
        LET cover_cost == RMul(R(qty), price)
            realized_pnl == RMul(RSub(position.average_cost, price), R(qty))
            margin_to_release == RMul(cover_cost, margin_requirement)
            new_qty == position.quantity + qty
            ps == [positions EXCEPT
                      ![ticker].realized_pnl = RAdd(position.realized_pnl, realized_pnl),
                      ![ticker].quantity = new_qty]
        IN  Return(qty, RAdd(cash, RSub(margin_to_release, cover_cost)),
                   RSub(margin_used, margin_to_release),
                   IF new_qty = 0 THEN Del(ps, ticker) ELSE ps)

----------------------------------------------------------------------------
(* Orders and order results.                                               *)

\* Order.__post_init__: the orders that can be constructed
OrderValid(o) ==
    /\ ~(o.order_type = "limit" /\ o.limit_price = None)
    /\ ~(o.order_type = "stop" /\ o.stop_price = None)
    /\ o.quantity > 0

\* the Order values handed to submit_order
Orders ==
    { o \in [ticker : Tickers, side : OrderSides, quantity : Quantities,
             order_type : OrderTypes,
             limit_price : {None} \cup {R(p) : p \in LimitPrices},
             stop_price : {None, R(1)},
             position_side : PositionSides, client_order_id : ClientIds] :
        /\ OrderValid(o)
        /\ (o.limit_price # None) = (o.order_type = "limit")
        /\ (o.stop_price # None) = (o.order_type = "stop") }

\* str(uuid4()): the next fresh broker order id
NewOrderId == uuids + 1

\* datetime.now(): a datetime is <<n>>, n the reading of a clock that ticks
\* once per order result
Now == <<uuids + 1>>

\* the OrderResult constructor as the four _create_*_result helpers call it
\* (submitted_at defaults to datetime.now(), filled_at to None)
OrderResult(order, quantity_filled, status, average_price, message) ==
    [order_id |-> NewOrderId, client_order_id |-> order.client_order_id,
     ticker |-> order.ticker, side |-> order.side,
     quantity_requested |-> order.quantity,
     quantity_filled |-> quantity_filled, status |-> status,
     average_price |-> average_price, message |-> message,
     submitted_at |-> Now, filled_at |-> None]

\* MockBroker._create_filled_result
CreateFilledResult(order, quantity, price) ==
    [OrderResult(order, quantity, "filled", price, NoMessage)
        EXCEPT !.filled_at = Now]

\* MockBroker._create_partial_result
CreatePartialResult(order, quantity, price) ==
    OrderResult(order, quantity, "partial", price, "Partial fill")

\* MockBroker._create_rejected_result
CreateRejectedResult(order, message) ==
    OrderResult(order, 0, "rejected", None, message)

\* MockBroker._create_pending_result: the result; the helper also stores it
CreatePendingResult(order) ==
    OrderResult(order, 0, "pending", None, "Order pending - limit price not reached")

----------------------------------------------------------------------------
(* submit_order.                                                           *)

\* what submit_order does: what it raised, the result it returned, whether it
\* stored that result in self._orders, and the ledger it leaves
Submitted(raised, result, stored, out) ==
    [raised |-> raised, result |-> result, stored |-> stored,
     cash |-> out.cash, margin_used |-> out.margin_used,
     positions |-> out.positions]

Unchanged == Return(0, cash, margin_used, positions)

\* lines 167-178: dispatch on (position_side, side)
Execute(order, exec_price) ==
    IF order.position_side = "long"
    THEN IF order.side = "buy"
         THEN ExecuteLongBuy(order.ticker, order.quantity, exec_price)
         ELSE ExecuteLongSell(order.ticker, order.quantity, exec_price)
    ELSE IF order.side = "sell"
         THEN ExecuteShortOpen(order.ticker, order.quantity, exec_price)
         ELSE ExecuteShortCover(order.ticker, order.quantity, exec_price)

\* the result built with <= where the source compares with <
CreateResultOffByOne(order, filled_qty, exec_price) ==
    IF filled_qty = 0 THEN CreateRejectedResult(order, "No quantity filled")
    ELSE IF filled_qty <= order.quantity
    THEN CreatePartialResult(order, filled_qty, exec_price)
    ELSE CreateFilledResult(order, filled_qty, exec_price)

\* lines 182-188: the result built from the filled quantity
CreateResult(order, filled_qty, exec_price) ==
    IF filled_qty = 0 THEN CreateRejectedResult(order, "No quantity filled")
    ELSE IF filled_qty < order.quantity
    THEN CreatePartialResult(order, filled_qty, exec_price)
    ELSE CreateFilledResult(order, filled_qty, exec_price)

\* lines 167-192: execute at exec_price, build the result and store it
ExecuteAndStore(order, exec_price) ==
    LET out == Execute(order, exec_price)
    IN  IF out.raised = "InsufficientFundsError"
        THEN Submitted(NoError, CreateRejectedResult(order, out.message), FALSE, out)
        ELSE IF out.raised # NoError
        THEN Submitted(out.raised, None, FALSE, out)
        ELSE Submitted(NoError, CreateResult(order, out.filled, exec_price), TRUE, out)

\* lines 136-165: price resolution and the order-type policy.  The decision
\* is to reject, to record the order as pending, to raise, or to execute at
\* exec_price
Decision(decision, exec_price, message) ==
    [decision |-> decision, exec_price |-> exec_price, message |-> message]

\* the policy applying the slippage to the limit price as well
PolicyLimitWithSlippage(order) ==
    LET current_price == get_current_price(order.ticker)
    IN  IF current_price = None
        THEN Decision("reject", None, "No price available")
        ELSE IF order.order_type = "market"
        THEN LET exec_price == ApplySlippage(current_price, order.side)
             IN  IF RGt(max_slippage, Zero)
                 THEN IF current_price = Zero
                      THEN Decision("raise", None, "ZeroDivisionError")
                      ELSE IF RGt(RDiv(RAbs(RSub(exec_price, current_price)),
                                       current_price), max_slippage)
                      THEN Decision("reject", None, "Slippage exceeds max")
                      ELSE Decision("execute", exec_price, NoMessage)
                 ELSE Decision("execute", exec_price, NoMessage)
        ELSE IF order.order_type = "limit"
        THEN IF order.limit_price = None
             THEN Decision("reject", None, "Limit price required")
             ELSE IF order.side = "buy" /\ RGt(current_price, order.limit_price)
             THEN Decision("pending", None, NoMessage)
             ELSE IF order.side = "sell" /\ RLt(current_price, order.limit_price)
             THEN Decision("pending", None, NoMessage)
             ELSE Decision("execute", ApplySlippage(order.limit_price, order.side), NoMessage)
        ELSE Decision("execute", ApplySlippage(current_price, order.side), NoMessage)

\* the policy rejecting a limit order whose price is not reached, where the
\* source records it as pending
PolicyRejectsUnreached(order) ==
    LET current_price == get_current_price(order.ticker)
    IN  IF current_price = None
        THEN Decision("reject", None, "No price available")
        ELSE IF order.order_type = "market"
        THEN LET exec_price == ApplySlippage(current_price, order.side)
             IN  IF RGt(max_slippage, Zero)
                 THEN IF current_price = Zero
                      THEN Decision("raise", None, "ZeroDivisionError")
                      ELSE IF RGt(RDiv(RAbs(RSub(exec_price, current_price)),
                                       current_price), max_slippage)
                      THEN Decision("reject", None, "Slippage exceeds max")
                      ELSE Decision("execute", exec_price, NoMessage)
                 ELSE Decision("execute", exec_price, NoMessage)
        ELSE IF order.order_type = "limit"
        THEN IF order.limit_price = None
             THEN Decision("reject", None, "Limit price required")
             ELSE IF order.side = "buy" /\ RGt(current_price, order.limit_price)
             THEN Decision("reject", None, "Limit price not reached")
             ELSE IF order.side = "sell" /\ RLt(current_price, order.limit_price)
             THEN Decision("reject", None, "Limit price not reached")
             ELSE Decision("execute", order.limit_price, NoMessage)
        ELSE Decision("execute", ApplySlippage(current_price, order.side), NoMessage)

\* lines 136-165 of submit_order
Policy(order) ==
    LET current_price == get_current_price(order.ticker)
    IN  IF current_price = None
        THEN Decision("reject", None, "No price available")
        ELSE IF order.order_type = "market"
        THEN LET exec_price == ApplySlippage(current_price, order.side)
             IN  IF RGt(max_slippage, Zero)
                 THEN IF current_price = Zero
                      THEN Decision("raise", None, "ZeroDivisionError")
                      ELSE IF RGt(RDiv(RAbs(RSub(exec_price, current_price)),
                                       current_price), max_slippage)
                      THEN Decision("reject", None, "Slippage exceeds max")
                      ELSE Decision("execute", exec_price, NoMessage)
                 ELSE Decision("execute", exec_price, NoMessage)
        ELSE IF order.order_type = "limit"
        THEN IF order.limit_price = None
             THEN Decision("reject", None, "Limit price required")
             ELSE IF order.side = "buy" /\ RGt(current_price, order.limit_price)
             THEN Decision("pending", None, NoMessage)
             ELSE IF order.side = "sell" /\ RLt(current_price, order.limit_price)
             THEN Decision("pending", None, NoMessage)
             ELSE Decision("execute", order.limit_price, NoMessage)
        ELSE Decision("execute", ApplySlippage(current_price, order.side), NoMessage)

\* MockBroker.submit_order
SubmitOrder(order) ==
    LET d == Policy(order)
    IN  CASE d.decision = "reject" ->
               Submitted(NoError, CreateRejectedResult(order, d.message), FALSE,
                         Unchanged)
          [] d.decision = "raise" ->
               Submitted(d.message, None, FALSE, Unchanged)
          [] d.decision = "pending" ->
               Submitted(NoError, CreatePendingResult(order), TRUE, Unchanged)
          [] d.decision = "execute" ->
               ExecuteAndStore(order, d.exec_price)

----------------------------------------------------------------------------
(* Queries.                                                                *)

\* MockBroker.get_order
get_order(order_id) == IF order_id \in DOMAIN orders THEN orders[order_id] ELSE None

\* lines 397-403 / 408-411: refresh one stored position from the current price
\* (a price of None or 0 is falsy and refreshes nothing)
Refreshed(ticker) ==
    LET price == get_current_price(ticker)
    IN  IF price # None /\ price # Zero
        THEN update_market_data(positions[ticker], price)
        ELSE positions[ticker]

RECURSIVE SumMarketValue(_, _)
\* sum(pos.market_value for pos in ps.values()) over the tickers ts
SumMarketValue(ps, ts) ==
    IF ts = {} THEN Zero
    ELSE LET t == CHOOSE x \in ts : TRUE
         IN  RAdd(ps[t].market_value, SumMarketValue(ps, ts \ {t}))

\* MockBroker.get_account
get_account ==
    LET positions_value == SumMarketValue(positions, DOMAIN positions)
        equity == RAdd(cash, positions_value)
    IN  [account_id |-> "mock-account", cash |-> cash,
         buying_power |-> RSub(cash, margin_used), equity |-> equity,
         margin_used |-> margin_used,
         margin_available |-> RSub(cash, margin_used), is_paper |-> TRUE]

----------------------------------------------------------------------------
(* The calls a trading session makes, one action per call.                 *)

\* the call recorded in ret: the position_side of the order submitted (the
\* result echoes the order's ticker, side, quantity and client id), what the
\* call raised and the OrderResult it returned
Returned(op, position_side, value) ==
    [op |-> op, position_side |-> position_side, raised |-> NoError,
     value |-> value]
Raised(op, position_side, err) ==
    [op |-> op, position_side |-> position_side, raised |-> err, value |-> None]

\* no state file on disk
NoFile == [kind |-> "absent"]

\* ret holds an OrderResult that submit_order returned
ReturnedResult == ret.op = "submit_order" /\ ret.raised = NoError

config == <<initial_cash, margin_requirement, slippage, max_slippage>>

\* MockBroker.__init__ with the arguments c = <<initial_cash,
\* margin_requirement, slippage, max_slippage>>
Construct(c) ==
    /\ initial_cash = c[1]
    /\ cash = c[1]
    /\ margin_requirement = c[2]
    /\ slippage = c[3]
    /\ max_slippage = c[4]
    /\ margin_used = Zero
    /\ positions = <<>>
    /\ orders = <<>>
    /\ prices = <<>>
    /\ uuids = 0
    /\ file = NoFile
    /\ ret = Returned("__init__", None, None)

\* an engine with the constructor's default ratios (margin_requirement 0.5,
\* no slippage, max_slippage 0.005) and one unit of cash
Init == Construct(<<R(1), Rat(1, 2), Zero, Rat(1, 200)>>)

\* an engine with 1% slippage against the default 0.5% guard and two units of
\* cash: every market order trips the guard, while stop orders, which the
\* guard does not cover, execute with the slippage applied
InitSlippage == Construct(<<R(2), Rat(1, 2), Rat(1, 100), Rat(1, 200)>>)

\* set_price filling the pending orders at the new price, which the source
\* never does
SetPriceFillsPending(S) ==
    \E ticker \in Tickers, price \in S :
        /\ prices' = (ticker :> R(price)) @@ prices
        /\ orders' = [order_id \in DOMAIN orders |->
                         IF orders[order_id].status = "pending"
                         THEN [orders[order_id] EXCEPT
                                  !.status = "filled",
                                  !.quantity_filled = @ + 1,
                                  !.average_price = R(price)]
                         ELSE orders[order_id]]
        /\ UNCHANGED <<config, file, cash, margin_used, positions, uuids, ret>>

\* a call of set_price with a price in S
SetPrice(S) ==
    \E ticker \in Tickers, price \in S :
        /\ prices' = (ticker :> R(price)) @@ prices
        /\ UNCHANGED <<config, file, cash, margin_used, positions, orders, uuids, ret>>

\* a call of submit_order with an order in S
SubmitOrders(S) ==
    \E order \in S :
        LET s == SubmitOrder(order)
        IN  /\ uuids < MaxOrders
            /\ cash' = s.cash
            /\ margin_used' = s.margin_used
            /\ positions' = s.positions
            /\ IF s.raised # NoError
               THEN /\ ret' = Raised("submit_order", order.position_side, s.raised)
                    /\ UNCHANGED <<orders, uuids>>
               ELSE /\ ret' = Returned("submit_order", order.position_side, s.result)
                    /\ uuids' = uuids + 1
                    /\ orders' = IF s.stored
                                 THEN orders @@ (s.result.order_id :> s.result)
                                 ELSE orders
            /\ UNCHANGED <<config, file, prices>>

\* cancel_order taking back what the order has filled so far
CancelOrderClearsFill(order_id) ==
    IF order_id \notin DOMAIN orders
    THEN [value |-> FALSE, orders |-> orders]
    ELSE IF is_terminal(orders[order_id])
    THEN [value |-> FALSE, orders |-> orders]
    ELSE [value |-> TRUE,
          orders |-> [orders EXCEPT ![order_id].status = "cancelled",
                                    ![order_id].quantity_filled = 0]]

\* cancel_order without the is_terminal test
CancelOrderAnyStatus(order_id) ==
    IF order_id \notin DOMAIN orders
    THEN [value |-> FALSE, orders |-> orders]
    ELSE [value |-> TRUE,
          orders |-> [orders EXCEPT ![order_id].status = "cancelled"]]

\* MockBroker.cancel_order: the value it returns and the order map it leaves
CancelOrder(order_id) ==
    IF order_id \notin DOMAIN orders
    THEN [value |-> FALSE, orders |-> orders]
    ELSE IF is_terminal(orders[order_id])
    THEN [value |-> FALSE, orders |-> orders]
    ELSE [value |-> TRUE,
          orders |-> [orders EXCEPT ![order_id].status = "cancelled"]]

\* the order ids handed to cancel_order: every id issued so far and one that
\* was never issued
OrderIds == 1..(uuids + 1)

\* a call of cancel_order
cancel_order ==
    \E order_id \in OrderIds :
        /\ orders' = CancelOrder(order_id).orders
        /\ UNCHANGED <<config, file, cash, margin_used, positions, prices, uuids, ret>>

\* a call of get_position
get_position ==
    \E ticker \in Tickers :
        /\ IF ticker \in DOMAIN positions
           THEN positions' = [positions EXCEPT ![ticker] = Refreshed(ticker)]
           ELSE UNCHANGED positions
        /\ UNCHANGED <<config, file, cash, margin_used, orders, prices, uuids, ret>>

\* a call of get_positions
get_positions ==
    /\ positions' = [t \in DOMAIN positions |-> Refreshed(t)]
    /\ UNCHANGED <<config, file, cash, margin_used, orders, prices, uuids, ret>>

\* reset leaving the price cache as it is
reset_keeps_prices ==
    /\ cash' = initial_cash
    /\ margin_used' = Zero
    /\ positions' = <<>>
    /\ orders' = <<>>
    /\ UNCHANGED <<config, file, prices, uuids, ret>>

\* MockBroker.reset
reset ==
    /\ cash' = initial_cash
    /\ margin_used' = Zero
    /\ positions' = <<>>
    /\ orders' = <<>>
    /\ prices' = <<>>
    /\ UNCHANGED <<config, file, uuids, ret>>

submit_order == SubmitOrders(Orders)

\* every call other than set_price
Call ==
    \/ submit_order
    \/ cancel_order
    \/ get_position
    \/ get_positions
    \/ reset

set_price == SetPrice(PriceSet)

set_price_or_zero == SetPrice(PriceSetWithZero)

Next == set_price \/ Call

NextWithZero == set_price_or_zero \/ Call

\* a session on a default engine at positive prices
Spec == Init /\ [][Next]_vars

\* a session on a default engine at prices that may be zero
SpecZeroPrice == Init /\ [][NextWithZero]_vars

\* a session on an engine with slippage configured
SpecSlippage == InitSlippage /\ [][Next]_vars

\* an engine with 0.25% slippage, which the default 0.5% guard lets pass
InitSlippageWithinGuard ==
    Construct(<<R(2), Rat(1, 2), Rat(1, 400), Rat(1, 200)>>)

\* an engine with 1% slippage and the guard switched off (max_slippage 0)
InitSlippageNoGuard ==
    Construct(<<R(2), Rat(1, 2), Rat(1, 100), Zero>>)

NextOrders == set_price \/ submit_order

\* sessions of orders on an engine whose slippage exceeds the guard, on one
\* whose slippage the guard lets pass, and on one without a guard
SpecSlippageGuard ==
    /\ InitSlippage \/ InitSlippageWithinGuard \/ InitSlippageNoGuard
    /\ [][NextOrders]_vars

----------------------------------------------------------------------------
(* Persistence: save_state writes the ledger to the state file as JSON and *)
(* load_state reads it back.  A JSON object is a record, a key it lacks a  *)
(* field the record lacks; numbers, strings and null are the values they   *)
(* stand for, and an enum member is written as its value, which is how the *)
(* model names the member.                                                 *)

\* datetime.isoformat() and datetime.fromisoformat()
isoformat(d) == <<"iso", d[1]>>
fromisoformat(str) == <<str[2]>>

\* lines 513-521: positions_data
PositionsData(ps) ==
    [t \in DOMAIN ps |->
        [quantity |-> ps[t].quantity, side |-> ps[t].side,
         average_cost |-> ps[t].average_cost,
         realized_pnl |-> ps[t].realized_pnl]]

\* orders_data written without the filled_at key
OrdersDataWithoutFilledAt(os) ==
    [order_id \in DOMAIN os |->
        LET order == os[order_id]
        IN  [order_id |-> order.order_id,
             client_order_id |-> order.client_order_id,
             ticker |-> order.ticker, side |-> order.side,
             quantity_requested |-> order.quantity_requested,
             quantity_filled |-> order.quantity_filled,
             status |-> order.status,
             average_price |-> order.average_price,
             message |-> order.message,
             submitted_at |-> isoformat(order.submitted_at)]]

\* lines 523-538: orders_data
OrdersData(os) ==
    [order_id \in DOMAIN os |->
        LET order == os[order_id]
        IN  [order_id |-> order.order_id,
             client_order_id |-> order.client_order_id,
             ticker |-> order.ticker, side |-> order.side,
             quantity_requested |-> order.quantity_requested,
             quantity_filled |-> order.quantity_filled,
             status |-> order.status,
             average_price |-> order.average_price,
             message |-> order.message,
             submitted_at |-> isoformat(order.submitted_at),
             filled_at |-> IF order.filled_at # None
                           THEN isoformat(order.filled_at) ELSE None]]

\* lines 540-551: the state object save_state dumps
SavedState ==
    [version |-> 1, saved_at |-> isoformat(Now),
     initial_cash |-> initial_cash, cash |-> cash,
     margin_requirement |-> margin_requirement, margin_used |-> margin_used,
     max_slippage |-> max_slippage,
     positions |-> PositionsData(positions),
     orders |-> OrdersData(orders), prices |-> prices]

\* the file save_state leaves; intact says that nothing else has written to
\* it since
SaveState == [kind |-> "json", state |-> SavedState, intact |-> TRUE]

\* the fields of the engine that load_state assigns
Memory ==
    [initial_cash |-> initial_cash, cash |-> cash,
     margin_requirement |-> margin_requirement, margin_used |-> margin_used,
     max_slippage |-> max_slippage, prices |-> prices,
     positions |-> positions, orders |-> orders]

\* the fields of an engine just constructed with the arguments c
FreshMemory(c) ==
    [initial_cash |-> c[1], cash |-> c[1], margin_requirement |-> c[2],
     margin_used |-> Zero, max_slippage |-> c[4], prices |-> <<>>,
     positions |-> <<>>, orders |-> <<>>]

\* what load_state returns and the fields it leaves
Loaded(value, memory) == [value |-> value, memory |-> memory]

RECURSIVE LoadPositions(_, _, _)
\* lines 590-597: the positions restored from data, entry by entry, up to the
\* first entry that raises (KeyError on a missing key, ValueError on a side
\* that is no PositionSide)
LoadPositions(data, ts, acc) ==
    IF ts = {} THEN [ok |-> TRUE, positions |-> acc]
    ELSE LET ticker == CHOOSE t \in ts : TRUE
             pos_data == data[ticker]
         IN  IF \/ "quantity" \notin DOMAIN pos_data
                \/ "side" \notin DOMAIN pos_data
                \/ pos_data.side \notin PositionSides
                \/ "average_cost" \notin DOMAIN pos_data
             THEN [ok |-> FALSE, positions |-> acc]
             ELSE LoadPositions(data, ts \ {ticker},
                     acc @@ (ticker :>
                        [NewPosition(ticker, pos_data.side) EXCEPT
                            !.quantity = pos_data.quantity,
                            !.average_cost = pos_data.average_cost,
                            !.realized_pnl =
                                IF "realized_pnl" \in DOMAIN pos_data
                                THEN pos_data.realized_pnl ELSE Zero]))

\* order_data.get(key)
Get(order_data, key) ==
    IF key \in DOMAIN order_data THEN order_data[key] ELSE None

RECURSIVE LoadOrders(_, _, _)
\* lines 601-614: the orders restored from data in the order of the file,
\* which is the order they were stored in, up to the first entry that raises
LoadOrders(data, ids, acc) ==
    IF ids = {} THEN [ok |-> TRUE, orders |-> acc]
    ELSE LET order_id == CHOOSE i \in ids : \A j \in ids : i <= j
             order_data == data[order_id]
         IN  IF \/ {"order_id", "client_order_id", "ticker", "side",
                    "quantity_requested", "quantity_filled", "status",
                    "submitted_at"} \ DOMAIN order_data # {}
                \/ order_data.side \notin OrderSides
                \/ order_data.status \notin OrderStatuses
             THEN [ok |-> FALSE, orders |-> acc]
             ELSE LoadOrders(data, ids \ {order_id},
                     acc @@ (order_id :>
                        [order_id |-> order_data.order_id,
                         client_order_id |-> order_data.client_order_id,
                         ticker |-> order_data.ticker,
                         side |-> order_data.side,
                         quantity_requested |-> order_data.quantity_requested,
                         quantity_filled |-> order_data.quantity_filled,
                         status |-> order_data.status,
                         average_price |-> Get(order_data, "average_price"),
                         message |-> IF "message" \in DOMAIN order_data
                                     THEN order_data.message ELSE NoMessage,
                         submitted_at |-> fromisoformat(order_data.submitted_at),
                         filled_at |-> IF Get(order_data, "filled_at") # None
                                       THEN fromisoformat(order_data.filled_at)
                                       ELSE None]))


\* MockBroker.load_state reading the file f into an engine whose fields are
\* memory: each assignment of lines 581-614 takes effect as it is reached,
\* and the first exception ends the call with False (lines 619-621)
LoadState(f, memory) ==
    IF f.kind = "absent" THEN Loaded(FALSE, memory)
    ELSE IF f.kind = "malformed" THEN Loaded(FALSE, memory)
    ELSE
    LET state == f.state
        Has(key) == key \in DOMAIN state
        m1 == [memory EXCEPT !.initial_cash = state.initial_cash]
        m2 == [m1 EXCEPT !.cash = state.cash]
        m3 == [m2 EXCEPT !.margin_requirement = state.margin_requirement]
        m4 == [m3 EXCEPT !.margin_used = state.margin_used]
        m5 == [m4 EXCEPT !.max_slippage = IF Has("max_slippage")
                                          THEN state.max_slippage
                                          ELSE Rat(1, 200)]
        m6 == [m5 EXCEPT !.prices = IF Has("prices") THEN state.prices
                                    ELSE <<>>]
        positions_data == IF Has("positions") THEN state.positions ELSE <<>>
        lp == LoadPositions(positions_data, DOMAIN positions_data, <<>>)
        m7 == [m6 EXCEPT !.positions = lp.positions]
        orders_data == IF Has("orders") THEN state.orders ELSE <<>>
        lo == LoadOrders(orders_data, DOMAIN orders_data, <<>>)
        m8 == [m7 EXCEPT !.orders = lo.orders]
    IN  IF ~Has("initial_cash") THEN Loaded(FALSE, memory)
        ELSE IF ~Has("cash") THEN Loaded(FALSE, m1)
        ELSE IF ~Has("margin_requirement") THEN Loaded(FALSE, m2)
        ELSE IF ~Has("margin_used") THEN Loaded(FALSE, m3)
        ELSE IF ~lp.ok THEN Loaded(FALSE, m7)
        ELSE IF ~lo.ok THEN Loaded(FALSE, m8)
        ELSE Loaded(TRUE, m8)

\* MockBroker.save_state, called while there is no state file
save_state ==
    /\ file.kind = "absent"
    /\ file' = SaveState
    /\ UNCHANGED <<config, cash, margin_used, positions, orders, prices,
                   uuids, ret>>

\* MockBroker.load_state
load_state ==
    LET l == LoadState(file, Memory)
    IN  /\ initial_cash' = l.memory.initial_cash
        /\ cash' = l.memory.cash
        /\ margin_requirement' = l.memory.margin_requirement
        /\ margin_used' = l.memory.margin_used
        /\ max_slippage' = l.memory.max_slippage
        /\ prices' = l.memory.prices
        /\ positions' = l.memory.positions
        /\ orders' = l.memory.orders
        /\ ret' = Returned("load_state", None, l.value)
        /\ UNCHANGED <<slippage, uuids, file>>

\* the arguments a later engine of the session is constructed with
FreshConfigs == {<<R(3), One, Zero, Zero>>}

\* the session goes on with a newly constructed engine, the state file staying
\* where it is
new_engine ==
    \E c \in FreshConfigs :
        /\ initial_cash' = c[1]
        /\ cash' = c[1]
        /\ margin_requirement' = c[2]
        /\ slippage' = c[3]
        /\ max_slippage' = c[4]
        /\ margin_used' = Zero
        /\ positions' = <<>>
        /\ orders' = <<>>
        /\ prices' = <<>>
        /\ ret' = Returned("__init__", None, None)
        /\ UNCHANGED <<uuids, file>>

\* keys that go missing from the saved object, from a position entry and from
\* an order entry
LostKeys == {"margin_used", "max_slippage"}
LostPositionKeys == {"quantity", "realized_pnl"}
LostOrderKeys == {"status", "message"}

\* f without the key
Without(f, key) == [k \in DOMAIN f \ {key} |-> f[k]]

\* the state file as saved is deleted, truncated, or rewritten without one
\* key
damage_file ==
    /\ file.kind = "json"
    /\ file.intact
    /\ \/ file' = NoFile
       \/ file' = [kind |-> "malformed"]
       \/ \E key \in LostKeys :
             file' = [file EXCEPT !.state = Without(@, key), !.intact = FALSE]
       \/ \E ticker \in DOMAIN file.state.positions, key \in LostPositionKeys :
             file' = [file EXCEPT !.state.positions[ticker] = Without(@, key),
                                  !.intact = FALSE]
       \/ \E order_id \in DOMAIN file.state.orders, key \in LostOrderKeys :
             file' = [file EXCEPT !.state.orders[order_id] = Without(@, key),
                                  !.intact = FALSE]
    /\ UNCHANGED <<config, cash, margin_used, positions, orders, prices,
                   uuids, ret>>

\* the orders of a session that saves its state: MARKET and LIMIT orders of
\* one share
SavedOrders ==
    {order \in Orders :
        order.order_type \in {"market", "limit"} /\ order.quantity = 1}

submit_saved_order == SubmitOrders(SavedOrders)

\* the one price of a session that saves its state
SavedPrices == {1}

set_saved_price == SetPrice(SavedPrices)

NextPersistence ==
    \/ set_saved_price
    \/ submit_saved_order
    \/ get_positions
    \/ save_state
    \/ load_state
    \/ new_engine
    \/ damage_file

\* a session that submits orders and saves and loads the state file
SpecPersistence == Init /\ [][NextPersistence]_vars

----------------------------------------------------------------------------
(* close_position and close_all_positions of BaseBroker, which MockBroker  *)
(* inherits.                                                               *)

\* the client_order_id an Order gets when none is given: a fresh uuid4
DefaultClientOrderId == "uuid4"

\* lines 151-163: the order that closes the position
ClosingOrder(ticker, position) ==
    [ticker |-> ticker,
     side |-> IF position.side = "long" THEN "sell" ELSE "buy",
     quantity |-> Abs(position.quantity),
     order_type |-> "market", limit_price |-> None, stop_price |-> None,
     position_side |-> position.side,
     client_order_id |-> DefaultClientOrderId]

\* positions ps after get_position(ticker) refreshed the market fields of the
\* position, as far as it is still held
Touched(ps, ticker) ==
    IF ticker \in DOMAIN ps
    THEN LET seen == Refreshed(ticker)
         IN  [ps EXCEPT ![ticker].current_price = seen.current_price,
                        ![ticker].market_value = seen.market_value,
                        ![ticker].unrealized_pnl = seen.unrealized_pnl]
    ELSE ps

\* what close_position did when its order met the outcome s of submit_order
Closed(ticker, order, s) ==
    [submitted |-> TRUE, order |-> order, raised |-> s.raised,
     result |-> s.result, stored |-> s.stored, cash |-> s.cash,
     margin_used |-> s.margin_used,
     positions |-> Touched(s.positions, ticker)]

\* BaseBroker.close_position: whether it submitted an order, the order, and
\* what submit_order did with it
ClosePosition(ticker) ==
    IF ticker \notin DOMAIN positions
    THEN [submitted |-> FALSE, positions |-> positions]
    ELSE IF positions[ticker].quantity = 0
    THEN [submitted |-> FALSE, positions |-> Touched(positions, ticker)]
    ELSE Closed(ticker, ClosingOrder(ticker, positions[ticker]),
                SubmitOrder(ClosingOrder(ticker, positions[ticker])))

\* the step of a close_position call that did c
CloseStep(c) ==
    /\ positions' = c.positions
    /\ IF ~c.submitted
       THEN UNCHANGED <<cash, margin_used, orders, uuids, ret>>
       ELSE /\ uuids < MaxOrders
            /\ cash' = c.cash
            /\ margin_used' = c.margin_used
            /\ IF c.raised # NoError
               THEN /\ ret' = Raised("submit_order", c.order.position_side,
                                     c.raised)
                    /\ UNCHANGED <<orders, uuids>>
               ELSE /\ ret' = Returned("submit_order",
                                       c.order.position_side, c.result)
                    /\ uuids' = uuids + 1
                    /\ orders' = IF c.stored
                                 THEN orders @@ (c.result.order_id :> c.result)
                                 ELSE orders
    /\ UNCHANGED <<config, file, prices>>

\* close_position(ticker) called
Close(ticker) == CloseStep(ClosePosition(ticker))

\* a call of close_position
close_position == \E ticker \in Tickers : Close(ticker)

\* BaseBroker.close_all_positions: get_positions refreshes every position and
\* close_position is called for each ticker held.  Tickers has one element,
\* so the loop runs once at most
close_all_positions == \E ticker \in DOMAIN positions : Close(ticker)

NextClose ==
    \/ set_price
    \/ submit_order
    \/ close_position
    \/ close_all_positions

\* a session that submits orders and closes positions
SpecClose == Init /\ [][NextClose]_vars

\* an engine with the default ratios and four units of cash, enough to hold
\* two shares
InitFunded == Construct(<<R(4), Rat(1, 2), Zero, Rat(1, 200)>>)

\* a session of orders on the funded engine
SpecFunded == InitFunded /\ [][NextOrders]_vars

----------------------------------------------------------------------------
(* get_performance_summary.                                                *)

RECURSIVE SumOf(_, _, _)
\* the sum of one float field over the positions ps of the tickers ts
SumOf(ps, ts, field) ==
    IF ts = {} THEN Zero
    ELSE LET t == CHOOSE x \in ts : TRUE
         IN  RAdd(ps[t][field], SumOf(ps, ts \ {t}, field))

\* line 453: get_positions() refreshes every position from its price
RefreshedPositions == [t \in DOMAIN positions |-> Refreshed(t)]

\* MockBroker.get_performance_summary: the PerformanceSummary it returns
PerformanceSummary ==
    LET ps == RefreshedPositions
        held == DOMAIN ps
        positions_value == SumOf(ps, held, "market_value")
        realized_pnl == SumOf(ps, held, "realized_pnl")
        unrealized_pnl == SumOf(ps, held, "unrealized_pnl")
        current_equity == RAdd(cash, positions_value)
        total_pnl == RSub(current_equity, initial_cash)
        winning_trades ==
            Cardinality({t \in held : RGt(ps[t].realized_pnl, Zero)})
        losing_trades ==
            Cardinality({t \in held : RLt(ps[t].realized_pnl, Zero)})
    IN  [initial_capital |-> initial_cash,
         current_equity |-> current_equity,
         cash |-> cash,
         positions_value |-> positions_value,
         total_pnl |-> total_pnl,
         total_pnl_percent |->
             IF RGt(initial_cash, Zero)
             THEN RMul(RDiv(total_pnl, initial_cash), R(100)) ELSE Zero,
         realized_pnl |-> realized_pnl,
         unrealized_pnl |-> unrealized_pnl,
         total_trades |->
             Cardinality({order_id \in DOMAIN orders : is_filled(orders[order_id])}),
         winning_trades |-> winning_trades,
         losing_trades |-> losing_trades,
         win_rate |->
             IF winning_trades + losing_trades > 0
             THEN RMul(Rat(winning_trades, winning_trades + losing_trades), R(100))
             ELSE Zero]

\* a call of get_performance_summary
get_performance_summary ==
    /\ positions' = RefreshedPositions
    /\ ret' = Returned("get_performance_summary", None, PerformanceSummary)
    /\ UNCHANGED <<config, file, cash, margin_used, orders, prices, uuids>>

NextPerformance == set_price \/ submit_order \/ get_performance_summary

\* a session of orders whose performance is summarised
SpecPerformance == Init /\ [][NextPerformance]_vars

----------------------------------------------------------------------------
(* Properties.  What a call leaves behind is stated of the step that makes  *)
(* the call: the unprimed variables are the state before it, the primed    *)
(* ones the state after it, and ret' is what it returned.  What a call     *)
(* would do from a state is stated of its outcome (SubmitOrder(order),     *)
(* CancelOrder(order_id)) for every argument the session may pass.         *)

\* floor(x)
RFloor(a) == a[1] \div a[2]

RLe(a, b) == ~RLt(b, a)

\* the order is dispatched to the primitive for (position_side, side)
Dispatches(order, position_side, side) ==
    /\ order.position_side = position_side
    /\ order.side = side
    /\ Policy(order).decision = "execute"

\* ret holds the OrderResult of an order with these sides and this status
ReturnedWith(position_side, side, status) ==
    /\ ReturnedResult
    /\ ret.position_side = position_side
    /\ ret.value.side = side
    /\ ret.value.status = status

\* the shares held on one side of a ticker: the magnitude of the position's
\* quantity when its side field is that side, none otherwise
Held(ticker, side) ==
    IF ticker \in DOMAIN positions /\ positions[ticker].side = side
    THEN Abs(positions[ticker].quantity)
    ELSE 0

\* C1: submit_order never lets an error escape: every call returns an
\* OrderResult, whatever the price, cash and margin are.
C1_NoErrorEscapes == ret.op = "submit_order" => ret.raised = NoError

\* C2: every OrderResult that submit_order returns is stored in the order
\* map under its own order id, so get_order(result.order_id) returns it right
\* after the call.
C2_EveryResultStored ==
    [][uuids' # uuids =>
          /\ ret'.value.order_id \in DOMAIN orders'
          /\ orders'[ret'.value.order_id] = ret'.value]_vars

\* a step in which submit_order returned an OrderResult, which ret' holds
SubmitReturned == uuids' # uuids

\* the result of an order that passed price resolution and the order-type
\* policy, and so was dispatched to one of the four primitives
Executed(r) ==
    \/ r.status \in {"partial", "filled"}
    \/ /\ r.status = "rejected"
       /\ r.message \in {"No quantity filled", "Insufficient cash",
                         "Insufficient margin"}

\* C3: a call of submit_order that returns a REJECTED result leaves cash,
\* margin_used and the position map exactly as they were.
C3_RejectedLeavesLedger ==
    [][(SubmitReturned /\ ret'.value.status = "rejected") =>
          /\ cash' = cash
          /\ margin_used' = margin_used
          /\ positions' = positions]_vars

\* a market order was rejected by the slippage guard while a position is held
C3_Witness ==
    /\ ReturnedResult
    /\ ret.value.status = "rejected"
    /\ ret.value.message = "Slippage exceeds max"
    /\ DOMAIN positions # {}

\* C4: for an order that passes price resolution and the order-type policy
\* the status follows from the filled quantity alone (REJECTED for zero,
\* PARTIAL below the requested quantity, FILLED at it), and quantity_filled
\* is the quantity the ledger moved by: cash and margin_used change by
\* exactly that many shares at the execution price.
C4_StatusFromFilledQuantity ==
    [][(SubmitReturned /\ Executed(ret'.value)) =>
          LET r == ret'.value
              f == r.quantity_filled
              amount == IF f = 0 THEN Zero ELSE RMul(R(f), r.average_price)
              margin == RMul(amount, margin_requirement)
          IN  /\ f = 0 => r.status = "rejected"
              /\ (f # 0 /\ f < r.quantity_requested) => r.status = "partial"
              /\ f = r.quantity_requested => r.status = "filled"
              /\ IF ret'.position_side = "long"
                 THEN /\ margin_used' = margin_used
                      /\ cash' = IF r.side = "buy"
                                 THEN RSub(cash, amount)
                                 ELSE RAdd(cash, amount)
                 ELSE IF r.side = "sell"
                 THEN /\ margin_used' = RAdd(margin_used, margin)
                      /\ cash' = RAdd(cash, RSub(amount, margin))
                 ELSE /\ margin_used' = RSub(margin_used, margin)
                      /\ cash' = RAdd(cash, RSub(margin, amount))]_vars

\* a buy of two shares was cut to one by the cash available
C4_Witness ==
    /\ ReturnedWith("long", "buy", "partial")
    /\ ret.value.quantity_requested = 2
    /\ ret.value.quantity_filled = 1

\* C5: a LONG+BUY whose cost exceeds the cash fills exactly floor(cash/price)
\* shares, takes exactly that many shares' price out of cash and leaves cash
\* non-negative; when floor(cash/price) is zero it is REJECTED for
\* insufficient funds.
C5_ClampedBuy ==
    \A order \in Orders :
        LET d == Policy(order)
            s == SubmitOrder(order)
        IN  (/\ Dispatches(order, "long", "buy")
             /\ RGt(d.exec_price, Zero)
             /\ RGt(RMul(R(order.quantity), d.exec_price), cash)) =>
            LET n == RFloor(RDiv(cash, d.exec_price))
            IN  /\ s.raised = NoError
                /\ IF n = 0
                   THEN /\ s.result.status = "rejected"
                        /\ s.result.message = "Insufficient cash"
                   ELSE /\ s.result.quantity_filled = n
                        /\ s.cash = RSub(cash, RMul(R(n), d.exec_price))
                        /\ RLe(Zero, s.cash)

\* C6: a LONG+SELL or a cover (SHORT+BUY) that is dispatched fills at most
\* the quantity held on that side; with no position of that side on the
\* ticker (none at all, or one of the opposite side) it fills zero and is
\* REJECTED.
C6_CloseFillsAtMostHeld ==
    [][(/\ SubmitReturned
        /\ Executed(ret'.value)
        /\ \/ ret'.position_side = "long" /\ ret'.value.side = "sell"
           \/ ret'.position_side = "short" /\ ret'.value.side = "buy") =>
          LET r == ret'.value
              held == Held(r.ticker, ret'.position_side)
          IN  /\ r.quantity_filled <= held
              /\ held = 0 =>
                    /\ r.quantity_filled = 0
                    /\ r.status = "rejected"
                    /\ positions' = positions]_vars

\* a sell of two shares against one share held was cut to the share held
C6_Witness ==
    /\ ReturnedWith("long", "sell", "partial")
    /\ ret.value.quantity_requested = 2
    /\ ret.value.quantity_filled = 1

RECURSIVE MarkToMarket(_)
\* the sum over the held tickers ts of share count times latest cached price
MarkToMarket(ts) ==
    IF ts = {} THEN Zero
    ELSE LET t == CHOOSE x \in ts : TRUE
         IN  RAdd(RMul(R(Abs(positions[t].quantity)),
                       IF t \in DOMAIN prices THEN prices[t] ELSE Zero),
                  MarkToMarket(ts \ {t}))

\* C7: the equity get_account reports is cash plus, for every held position,
\* its share count times the latest cached price of its ticker.
C7_EquityMarkedToMarket ==
    get_account.equity = RAdd(cash, MarkToMarket(DOMAIN positions))

\* C8: no stored position has quantity zero, and submit_order deletes a
\* position only in the call that brings its quantity to zero.
C8_NoZeroPosition ==
    [][/\ \A t \in DOMAIN positions' : positions'[t].quantity # 0
       /\ uuids' # uuids =>
             \A t \in DOMAIN positions \ DOMAIN positions' :
                 ret'.value.quantity_filled = Abs(positions[t].quantity)]_vars

\* C9: an open/add-long fill of q shares at price p on a ticker that held Q
\* long shares at average cost A (Q = 0 when absent) leaves quantity Q + q
\* and an average cost c with c * (Q + q) = A * Q + p * q.
C9_WeightedAverageCost ==
    \A order \in Orders :
        LET t == order.ticker
            d == Policy(order)
            s == SubmitOrder(order)
        IN  (/\ Dispatches(order, "long", "buy")
             /\ t \in DOMAIN positions => positions[t].side = "long"
             /\ s.raised = NoError
             /\ s.result.status \in {"partial", "filled"}) =>
            LET q == s.result.quantity_filled
                Q == IF t \in DOMAIN positions THEN positions[t].quantity ELSE 0
                A == IF t \in DOMAIN positions THEN positions[t].average_cost ELSE Zero
            IN  /\ t \in DOMAIN s.positions
                /\ s.positions[t].quantity = Q + q
                /\ RMul(s.positions[t].average_cost, R(Q + q))
                      = RAdd(RMul(A, R(Q)), RMul(d.exec_price, R(q)))

\* C10: cancel_order on a stored PENDING, SUBMITTED or PARTIAL order sets its
\* status to CANCELLED and returns true; on an unknown id or a FILLED,
\* CANCELLED, REJECTED or EXPIRED order it returns false and leaves the order
\* map as it was; a step that changes a stored order's status changes that
\* status alone, and nothing in the ledger.
C10_CancelOrder ==
    [][/\ \A order_id \in OrderIds :
             LET c == CancelOrder(order_id)
             IN  IF /\ order_id \in DOMAIN orders
                    /\ orders[order_id].status \in {"pending", "submitted", "partial"}
                 THEN /\ c.value = TRUE
                      /\ c.orders = [orders EXCEPT ![order_id].status = "cancelled"]
                 ELSE /\ c.value = FALSE
                      /\ c.orders = orders
       /\ \A order_id \in DOMAIN orders \cap DOMAIN orders' :
             orders'[order_id] # orders[order_id] =>
                 /\ orders'[order_id] = [orders[order_id] EXCEPT !.status = "cancelled"]
                 /\ \A other \in DOMAIN orders \ {order_id} :
                       other \in DOMAIN orders' /\ orders'[other] = orders[other]
                 /\ <<cash, margin_used, positions, prices>>'
                       = <<cash, margin_used, positions, prices>>]_vars

\* a pending limit order was cancelled
C10_Witness ==
    \E order_id \in DOMAIN orders :
        /\ orders[order_id].status = "cancelled"
        /\ orders[order_id].quantity_filled = 0
        /\ orders[order_id].message = "Order pending - limit price not reached"

\* C11: terminal order states are absorbing: an order stored as FILLED,
\* CANCELLED, REJECTED or EXPIRED keeps its status, quantity_filled and
\* average_price through every later call, for as long as it is in the map.
C11_TerminalAbsorbing ==
    [][\A order_id \in DOMAIN orders \cap DOMAIN orders' :
          is_terminal(orders[order_id]) =>
              /\ orders'[order_id].status = orders[order_id].status
              /\ orders'[order_id].quantity_filled = orders[order_id].quantity_filled
              /\ orders'[order_id].average_price = orders[order_id].average_price]_vars

\* a filled order is still stored as filled after a later order was
\* submitted and cancelled
C11_Witness ==
    /\ 1 \in DOMAIN orders /\ orders[1].status = "filled"
    /\ 2 \in DOMAIN orders /\ orders[2].status = "cancelled"

\* the LIMIT orders among the orders handed to submit_order
LimitOrders == {order \in Orders : order.order_type = "limit"}

\* the limit price of the order is not reached at the current price p
NotReached(order, p) ==
    \/ order.side = "buy" /\ RGt(p, order.limit_price)
    \/ order.side = "sell" /\ RLt(p, order.limit_price)

\* C12: a limit BUY submitted while the current price is above its limit, and
\* a limit SELL submitted while it is below, returns PENDING with
\* quantity_filled 0, is stored in the order map, and leaves cash,
\* margin_used and the positions unchanged.
C12_UnreachedLimitPending ==
    \A order \in LimitOrders :
        LET p == get_current_price(order.ticker)
            s == SubmitOrder(order)
        IN  (p # None /\ NotReached(order, p)) =>
                /\ s.raised = NoError
                /\ s.result.status = "pending"
                /\ s.result.quantity_filled = 0
                /\ s.stored
                /\ s.cash = cash
                /\ s.margin_used = margin_used
                /\ s.positions = positions

\* a limit SELL of a short open was submitted under its limit: it is stored
\* as pending and nothing was sold
C12_Witness ==
    /\ ReturnedWith("short", "sell", "pending")
    /\ ret.value.order_id \in DOMAIN orders
    /\ orders[ret.value.order_id] = ret.value
    /\ RLt(prices[ret.value.ticker], R(2))
    /\ positions = <<>>

\* a step that caches a price
PriceCached ==
    \E ticker \in DOMAIN prices' :
        ticker \notin DOMAIN prices \/ prices'[ticker] # prices[ticker]

\* C13: a PENDING order is never promoted: a stored pending order stays
\* pending with its quantity_filled and average_price, or becomes CANCELLED;
\* the step that cancels it changes nothing in the ledger; a step that caches
\* a price, whether or not it crosses a limit, changes no order and nothing
\* in the ledger; a later submit_order leaves every stored order as it was.
C13_PendingNeverPromoted ==
    [][/\ \A order_id \in DOMAIN orders \cap DOMAIN orders' :
             orders[order_id].status = "pending" =>
                 /\ orders'[order_id].status \in {"pending", "cancelled"}
                 /\ orders'[order_id].quantity_filled = 0
                 /\ orders'[order_id].average_price = None
                 /\ orders'[order_id].status = "cancelled" => ledger' = ledger
       /\ PriceCached => (orders' = orders /\ ledger' = ledger)
       /\ SubmitReturned =>
             \A order_id \in DOMAIN orders :
                 order_id \in DOMAIN orders' /\ orders'[order_id] = orders[order_id]]_vars

\* a limit BUY is still pending after the price fell through its limit and a
\* later order was filled at that price
C13_Witness ==
    /\ 1 \in DOMAIN orders
    /\ orders[1].status = "pending" /\ orders[1].side = "buy"
    /\ "X" \in DOMAIN prices /\ RLt(prices["X"], R(2))
    /\ ReturnedResult /\ ret.value.order_id = 2 /\ ret.value.status = "filled"

\* the position is one of this side: its side field says so and its quantity
\* has the sign of that side (positive for long, negative for short)
WellFormed(pos, side) ==
    /\ pos.side = side
    /\ IF side = "long" THEN pos.quantity > 0 ELSE pos.quantity < 0

\* C14: an executable limit order (BUY at or under its limit, SELL at or over
\* it) executes at exactly its limit price L, whatever the current price and
\* the configured slippage are: a fill reports average_price L, cash and
\* margin_used move by the filled quantity times L, and a fill that opens a
\* position or adds to a position of its side enters the average cost at L.
C14_LimitFillsAtLimit ==
    \A order \in LimitOrders :
        LET t == order.ticker
            p == get_current_price(t)
            L == order.limit_price
            s == SubmitOrder(order)
        IN  (p # None /\ ~NotReached(order, p)) =>
            /\ s.raised = NoError
            /\ s.result.status \in {"filled", "partial", "rejected"}
            /\ LET f == s.result.quantity_filled
                   amount == RMul(R(f), L)
                   margin == RMul(amount, margin_requirement)
                   Q == Held(t, order.position_side)
                   A == IF Q = 0 THEN Zero ELSE positions[t].average_cost
                   opens == \/ order.position_side = "long" /\ order.side = "buy"
                            \/ order.position_side = "short" /\ order.side = "sell"
               IN  /\ f # 0 => s.result.average_price = L
                   /\ IF order.position_side = "long"
                      THEN /\ s.cash = IF order.side = "buy"
                                       THEN RSub(cash, amount)
                                       ELSE RAdd(cash, amount)
                           /\ s.margin_used = margin_used
                      ELSE IF order.side = "sell"
                      THEN /\ s.cash = RAdd(cash, RSub(amount, margin))
                           /\ s.margin_used = RAdd(margin_used, margin)
                      ELSE /\ s.cash = RAdd(cash, RSub(margin, amount))
                           /\ s.margin_used = RSub(margin_used, margin)
                   /\ (/\ opens
                       /\ f > 0
                       /\ t \in DOMAIN positions =>
                              WellFormed(positions[t], order.position_side)) =>
                          /\ t \in DOMAIN s.positions
                          /\ RMul(s.positions[t].average_cost, R(Q + f))
                                = RAdd(RMul(A, R(Q)), amount)

\* with 1% slippage configured, a limit BUY at 2 submitted at a current price
\* of 1 was filled at 2
C14_Witness ==
    /\ ReturnedWith("long", "buy", "filled")
    /\ RGt(slippage, Zero)
    /\ prices[ret.value.ticker] = R(1)
    /\ ret.value.average_price = R(2)
    /\ positions[ret.value.ticker].average_cost = R(2)
    /\ cash = RSub(initial_cash, R(2))

\* the fields of a position that the state file keeps
Kept(pos) == <<pos.ticker, pos.quantity, pos.side, pos.average_cost, pos.realized_pnl>>

\* C15: round trip: in every reachable state, save_state followed by
\* load_state of that file on a freshly constructed engine returns true and
\* gives the same initial cash, cash, margin_requirement, margin_used, price
\* cache, positions (quantity, side, average_cost, realized_pnl of each
\* ticker) and orders (every field of every OrderResult).
C15_RoundTrip ==
    \A c \in FreshConfigs \cup {config} :
        LET l == LoadState(SaveState, FreshMemory(c))
        IN  /\ l.value = TRUE
            /\ l.memory.initial_cash = initial_cash
            /\ l.memory.cash = cash
            /\ l.memory.margin_requirement = margin_requirement
            /\ l.memory.margin_used = margin_used
            /\ l.memory.prices = prices
            /\ DOMAIN l.memory.positions = DOMAIN positions
            /\ \A t \in DOMAIN positions :
                  Kept(l.memory.positions[t]) = Kept(positions[t])
            /\ l.memory.orders = orders

\* load_state returned true on the file of an engine that held a position
\* with a refreshed market value, a filled order and a pending one
C15_Witness ==
    /\ ret.op = "load_state" /\ ret.value = TRUE
    /\ file.kind = "json" /\ file.intact
    /\ \E t \in DOMAIN positions :
          /\ positions[t].market_value = Zero
          /\ RGt(RMul(R(Abs(positions[t].quantity)), prices[t]), Zero)
    /\ \E i, j \in DOMAIN orders :
          orders[i].status = "filled" /\ orders[j].status = "pending"
    /\ OrdersData(orders) = file.state.orders
    /\ PositionsData(positions) = file.state.positions
    /\ cash = file.state.cash

\* C16: a load_state that fails (no file, malformed JSON, a required key
\* missing at any depth) returns false and leaves initial cash, cash,
\* margin_requirement, margin_used, prices, positions and orders as they
\* were before the call.
C16_FailedLoadLeavesLedger ==
    LET l == LoadState(file, Memory)
    IN  l.value = FALSE => l.memory = Memory

\* C17: after reset the ledger is that of an engine freshly constructed with
\* the same arguments: cash is the initial cash, margin_used is 0, and the
\* position map, the order map and the price cache are empty.
C17_ResetRestoresFresh ==
    [][reset => /\ Memory' = FreshMemory(config)
                /\ config' = config]_vars

\* a filled order was returned, and the ledger is fresh again
C17_Witness ==
    /\ ReturnedResult /\ ret.value.status = "filled"
    /\ Memory = FreshMemory(config)

\* a price is cached for the ticker and a market order at it passes the
\* slippage guard
Closable(ticker) ==
    /\ ticker \in DOMAIN prices
    /\ RGt(prices[ticker], Zero)
    /\ RGt(max_slippage, Zero) => RLe(slippage, max_slippage)

\* C18: close_position on a ticker that is not held submits nothing; on a
\* held position it submits one MARKET order for the position's share count,
\* SELL for a long and BUY for a short position, on the position's side, and
\* with a price available and the slippage guard not exceeded that order is
\* FILLED and the position is gone, so that close_all_positions leaves no
\* position.
C18_ClosePositionFlattens ==
    \A ticker \in Tickers :
        LET c == ClosePosition(ticker)
        IN  IF ticker \notin DOMAIN positions
            THEN ~c.submitted /\ c.positions = positions
            ELSE /\ c.submitted
                 /\ c.order.order_type = "market"
                 /\ c.order.quantity = Abs(positions[ticker].quantity)
                 /\ c.order.position_side = positions[ticker].side
                 /\ c.order.side = IF positions[ticker].side = "long"
                                   THEN "sell" ELSE "buy"
                 /\ Closable(ticker) =>
                        /\ c.raised = NoError
                        /\ c.result.status = "filled"
                        /\ ticker \notin DOMAIN c.positions

\* the MARKET orders among the orders handed to submit_order
MarketOrders == {order \in Orders : order.order_type = "market"}

\* C19: a MARKET order at a current price p > 0 whose realized slippage
\* |exec_price - p| / p exceeds a max_slippage > 0 is REJECTED with the
\* slippage message and fills nothing; otherwise a BUY executes at
\* p * (1 + slippage) and a SELL at p * (1 - slippage).
C19_SlippageGuard ==
    \A order \in MarketOrders :
        LET p == get_current_price(order.ticker)
            s == SubmitOrder(order)
            e == IF order.side = "buy"
                 THEN RMul(p, RAdd(One, slippage))
                 ELSE RMul(p, RSub(One, slippage))
        IN  (p # None /\ RGt(p, Zero)) =>
            /\ s.raised = NoError
            /\ IF /\ RGt(max_slippage, Zero)
                  /\ RGt(RDiv(RAbs(RSub(e, p)), p), max_slippage)
               THEN /\ s.result.status = "rejected"
                    /\ s.result.message = "Slippage exceeds max"
                    /\ s.result.quantity_filled = 0
                    /\ <<s.cash, s.margin_used, s.positions>> = ledger
               ELSE LET f == s.result.quantity_filled
                    IN  /\ s.result.message # "Slippage exceeds max"
                        /\ f # 0 => s.result.average_price = e
                        /\ order.position_side = "long" =>
                              s.cash = IF order.side = "buy"
                                       THEN RSub(cash, RMul(R(f), e))
                                       ELSE RAdd(cash, RMul(R(f), e))

\* with 0.25% slippage a long position bought at 1.0025 was sold at 0.9975
C19_Witness ==
    /\ ReturnedWith("long", "sell", "filled")
    /\ slippage = Rat(1, 400)
    /\ prices[ret.value.ticker] = R(1)
    /\ ret.value.average_price = Rat(399, 400)
    /\ orders[1].side = "buy" /\ orders[1].average_price = Rat(401, 400)

\* the STOP and STOP_LIMIT orders among the orders handed to submit_order
StopOrders == {order \in Orders : order.order_type \in {"stop", "stop_limit"}}

\* the MARKET order with the ticker, side, position_side and quantity of order
AsMarket(order) ==
    [order EXCEPT !.order_type = "market", !.stop_price = None]

\* C20: a STOP or STOP_LIMIT order has the outcome of the corresponding
\* MARKET order submitted in the same state: the same status, filled
\* quantity and execution price, the same cash, margin_used and positions
\* afterwards, rejection by the maximum-slippage guard included.
C20_StopAsMarket ==
    \A order \in StopOrders :
        LET s == SubmitOrder(order)
            m == SubmitOrder(AsMarket(order))
        IN  /\ s.raised = m.raised
            /\ s.raised = NoError =>
                  /\ s.result.status = m.result.status
                  /\ s.result.quantity_filled = m.result.quantity_filled
                  /\ s.result.average_price = m.result.average_price
            /\ s.cash = m.cash
            /\ s.margin_used = m.margin_used
            /\ s.positions = m.positions

\* C21: an open/add-short fill (SHORT+SELL) of f shares at price p adds
\* f * p * margin_requirement to margin_used and f * p minus that margin to
\* cash; when the margin required for the requested quantity exceeds the cash
\* the fill is floor(cash / (p * margin_requirement)) shares, and when that
\* floor is zero the order is REJECTED for insufficient margin.
C21_ShortOpen ==
    \A order \in Orders :
        LET d == Policy(order)
            s == SubmitOrder(order)
        IN  (/\ Dispatches(order, "short", "sell")
             /\ RGt(d.exec_price, Zero)) =>
            LET p == d.exec_price
                required == RMul(RMul(p, R(order.quantity)), margin_requirement)
                n == RFloor(RDiv(cash, RMul(p, margin_requirement)))
                f == s.result.quantity_filled
                margin == RMul(RMul(p, R(f)), margin_requirement)
            IN  /\ s.raised = NoError
                /\ s.margin_used = RAdd(margin_used, margin)
                /\ s.cash = RAdd(cash, RSub(RMul(p, R(f)), margin))
                /\ IF RGt(required, cash)
                   THEN IF n = 0
                        THEN /\ s.result.status = "rejected"
                             /\ s.result.message = "Insufficient margin"
                        ELSE f = n
                   ELSE f = order.quantity

\* C22: a cover fill (SHORT+BUY) of f shares at price p on a position held
\* short at average cost A adds (A - p) * f to the position's realized P&L,
\* takes f * p * margin_requirement off margin_used, changes cash by
\* f * p * margin_requirement - f * p, reduces the short size by f, and
\* removes the position when the short size reaches zero.
C22_ShortCover ==
    \A order \in Orders :
        LET t == order.ticker
            d == Policy(order)
            s == SubmitOrder(order)
        IN  (/\ Dispatches(order, "short", "buy")
             /\ s.raised = NoError
             /\ s.result.quantity_filled # 0) =>
            LET p == d.exec_price
                f == s.result.quantity_filled
                size == Held(t, "short")
                margin == RMul(RMul(R(f), p), margin_requirement)
            IN  /\ t \in DOMAIN positions
                /\ positions[t].side = "short"
                /\ s.margin_used = RSub(margin_used, margin)
                /\ s.cash = RAdd(cash, RSub(margin, RMul(R(f), p)))
                /\ IF size - f = 0
                   THEN t \notin DOMAIN s.positions
                   ELSE /\ t \in DOMAIN s.positions
                        /\ s.positions[t].side = "short"
                        /\ Abs(s.positions[t].quantity) = size - f
                        /\ s.positions[t].average_cost = positions[t].average_cost
                        /\ s.positions[t].realized_pnl =
                              RAdd(positions[t].realized_pnl,
                                   RMul(RSub(positions[t].average_cost, p), R(f)))

\* the first order of the session was a long buy that filled and the shares
\* bought from flat are still held: before it cash was initial_cash
BoughtFromFlat(t) ==
    /\ uuids = 1
    /\ ReturnedResult
    /\ ret.position_side = "long"
    /\ ret.value.side = "buy"
    /\ ret.value.ticker = t
    /\ ret.value.quantity_filled > 0
    /\ t \in DOMAIN positions

\* C23: a reduce/close-long fill (LONG+SELL) of f shares at price p on a
\* position held long at average cost A adds f * p to cash; a partial
\* reduction adds (p - A) * f to the position's realized P&L and leaves the
\* average cost as it was, a full one removes the position; and buying q
\* shares at p1 from flat, then selling all q at p2, leaves cash at the
\* initial cash plus q * (p2 - p1) and no position.
C23_LongSell ==
    \A order \in Orders :
        LET t == order.ticker
            d == Policy(order)
            s == SubmitOrder(order)
        IN  (/\ Dispatches(order, "long", "sell")
             /\ s.raised = NoError
             /\ s.result.quantity_filled # 0) =>
            LET p == d.exec_price
                f == s.result.quantity_filled
                Q == Held(t, "long")
            IN  /\ t \in DOMAIN positions
                /\ positions[t].side = "long"
                /\ s.margin_used = margin_used
                /\ s.cash = RAdd(cash, RMul(R(f), p))
                /\ IF Q - f = 0
                   THEN t \notin DOMAIN s.positions
                   ELSE /\ t \in DOMAIN s.positions
                        /\ s.positions[t].side = "long"
                        /\ s.positions[t].quantity = Q - f
                        /\ s.positions[t].average_cost = positions[t].average_cost
                        /\ s.positions[t].realized_pnl =
                              RAdd(positions[t].realized_pnl,
                                   RMul(RSub(p, positions[t].average_cost), R(f)))
                /\ (BoughtFromFlat(t) /\ order.quantity = ret.value.quantity_filled) =>
                      /\ s.cash = RAdd(initial_cash,
                                       RMul(R(f), RSub(p, ret.value.average_price)))
                      /\ s.positions = <<>>

\* one of two shares bought at 1 was sold at 3: the position keeps its
\* average cost of 1 and has realized 2
C23_Witness ==
    /\ ReturnedWith("long", "sell", "filled")
    /\ "X" \in DOMAIN positions
    /\ positions["X"].quantity = 1
    /\ positions["X"].average_cost = R(1)
    /\ positions["X"].realized_pnl = R(2)
    /\ cash = R(5)

\* C24: in every performance summary that get_performance_summary returns,
\* after any fills and price changes, total_pnl is the sum of the
\* realized_pnl and the unrealized_pnl of the same summary, also after
\* positions have been closed.
C24_TotalPnlIsSum ==
    ret.op = "get_performance_summary" =>
        ret.value.total_pnl = RAdd(ret.value.realized_pnl, ret.value.unrealized_pnl)

\* C25: in every reachable state the sign of a stored position's quantity
\* agrees with its side: a LONG position has a positive quantity and a SHORT
\* position a non-zero one, whatever LONG and SHORT orders were submitted on
\* the ticker.
C25_SignAgreesWithSide ==
    \A t \in DOMAIN positions :
        IF positions[t].side = "long"
        THEN positions[t].quantity > 0
        ELSE positions[t].quantity # 0

\* C26: in every reachable ledger state, also with cash below zero after
\* short covers, every OrderResult that submit_order produces has
\* 0 <= quantity_filled <= quantity_requested.
C26_FilledWithinRequested ==
    \A order \in Orders :
        LET s == SubmitOrder(order)
        IN  s.raised = NoError =>
                /\ 0 <= s.result.quantity_filled
                /\ s.result.quantity_filled <= s.result.quantity_requested

\* C27: margin_used is never negative, and it is 0 whenever no SHORT position
\* is held: opening shorts and covering all of them, at whatever prices,
\* brings margin_used back to exactly 0.
C27_MarginUsed ==
    /\ RLe(Zero, margin_used)
    /\ (\A t \in DOMAIN positions : positions[t].side # "short") =>
           margin_used = Zero

\* C28: cash is never negative in a state reached from a non-negative
\* initial cash by set_price and submit_order calls of the four kinds (buy,
\* sell, short, cover).
C28_CashNonNegative == RLe(Zero, initial_cash) => RLe(Zero, cash)

\* the order opens or adds to a position of its side while the ticker holds a
\* position of the opposite side
OpensAgainst(order) ==
    /\ order.ticker \in DOMAIN positions
    /\ \/ /\ Dispatches(order, "long", "buy")
          /\ positions[order.ticker].side = "short"
       \/ /\ Dispatches(order, "short", "sell")
          /\ positions[order.ticker].side = "long"

\* C29: an order never alters a position of the opposite side: a LONG+BUY on
\* a ticker held SHORT and a SHORT+SELL on a ticker held LONG leave the
\* quantity, side, average_cost and realized_pnl of that position as they
\* were.
C29_OppositeSideUntouched ==
    \A order \in Orders :
        LET t == order.ticker
            s == SubmitOrder(order)
        IN  OpensAgainst(order) =>
                /\ t \in DOMAIN s.positions
                /\ Kept(s.positions[t]) = Kept(positions[t])

\* C30: cancel_order never changes cash, margin_used or a position, whether
\* it succeeds or fails; cancelling a PARTIAL order marks it CANCELLED while
\* its quantity_filled stays and the shares it filled stay in the ledger.
C30_CancelLeavesLedger ==
    [][/\ cancel_order => ledger' = ledger
       /\ \A order_id \in DOMAIN orders :
             orders[order_id].status = "partial" =>
                 LET c == CancelOrder(order_id)
                 IN  /\ c.value = TRUE
                     /\ c.orders[order_id].status = "cancelled"
                     /\ c.orders[order_id].quantity_filled
                           = orders[order_id].quantity_filled
       /\ \A order_id \in DOMAIN orders \cap DOMAIN orders' :
             (/\ orders[order_id].status = "partial"
              /\ orders'[order_id].status = "cancelled") =>
                 /\ orders'[order_id].quantity_filled
                       = orders[order_id].quantity_filled
                 /\ ledger' = ledger]_vars

\* a buy of two shares that filled one was cancelled: the order is CANCELLED
\* with one share filled, and the share is held
C30_Witness ==
    \E order_id \in DOMAIN orders :
        /\ orders[order_id].status = "cancelled"
        /\ orders[order_id].message = "Partial fill"
        /\ orders[order_id].quantity_requested = 2
        /\ orders[order_id].quantity_filled = 1
        /\ orders[order_id].ticker \in DOMAIN positions
        /\ positions[orders[order_id].ticker].quantity = 1
        /\ cash = Zero

====
